---- MODULE Spec2Model ----
(***************************************************************************)
(* Model of the physical-memory manager of src/oscode2.h (lines 1-454):    *)
(* memory_init, memory_alloc_aligned, memory_free, find_free_block,        *)
(* merge_free_blocks, memory_defragment, the process memory contexts and   *)
(* the page-frame bitmap.                                                  *)
(*                                                                         *)
(* Representation.                                                         *)
(*  - A memory_block_t is a record; its next/prev links are its position   *)
(*    in a sequence (free_blocks, allocated_blocks: head = element 1).     *)
(*    The field hdr is the location of the struct itself, as the code      *)
(*    computes it (line 150, line 187).  A block pointer returned by       *)
(*    find_free_block is an index into free_blocks, 0 for nullptr.         *)
(*  - uint32_t arithmetic is modular.  The machine is narrowed from 32 to  *)
(*    8 bits (Word), and the sizes of the source (KERNEL_HEAP_SIZE,        *)
(*    STACK_SIZE, PAGE_SIZE, the total memory handed to memory_init) are   *)
(*    scaled down with it so that every address fits a word.               *)
(*    sizeof(memory_block_t) keeps its 32-bit value, 28.                   *)
(*    MAX_PROCESSES is scaled from 64 to 2.                                *)
(*  - The bytes of the address space are not kept between calls: callers   *)
(*    may write any payload between two calls.  Every call starts from     *)
(*    Memory0, which holds a different value in every cell, so that any    *)
(*    byte copied or overwritten by memmove can be told apart.  The bytes  *)
(*    of the block headers themselves are not represented.                 *)
(*  - The structs are stored in the memory they describe.  Once two        *)
(*    linked structs overlap (the same struct linked twice is a cycle in   *)
(*    the code's list) the list walks read corrupted links; a call is      *)
(*    followed only from a state where the linked structs are apart        *)
(*    (StructsIntact).  The overlapping state itself is reachable and is   *)
(*    what the well-formedness property reports.                           *)
(*  - ret is the last call: its name, arguments and return value.          *)
(*  - dfr is what the last call's memory_defragment pass, if any, saw and  *)
(*    left: the allocated list and its payloads before the pass, and both  *)
(*    lists and the payloads right after it.                               *)
(***************************************************************************)
EXTENDS Integers, Sequences, FiniteSets, TLC

VARIABLES mm, ret, dfr

vars == <<mm, ret, dfr>>

-----------------------------------------------------------------------------
(* Program constants *)

Word == 256
UINT32_MAX == Word - 1
PAGE_SIZE == 64
MAX_PROCESSES == 2
STACK_SIZE == 32
KERNEL_HEAP_SIZE == 32
SIZEOF_BLOCK == 28

MEM_TYPE_FREE == 0
MEM_TYPE_KERNEL == 1
MEM_TYPE_USER == 2
MEM_TYPE_GAME == 3

nullptr == 0

(* Bounds of the exploration *)

MaxAllocs == 3
MaxFrag == 1
HeapMaxAllocs == 4
HeapMaxFrag == 2

TotalMemories == {192}
KernelStarts == {0}
Sizes == {0, 40, 120}
Alignments == {4, 16}
AnyAlignments == {0, 3, 4}
Types == {MEM_TYPE_GAME}
Pids == 0 .. MAX_PROCESSES
CodeSizes == {40}
ProcSizes == {40}

-----------------------------------------------------------------------------
(* uint32_t arithmetic *)

U32(x) == x % Word

RECURSIVE BitAnd(_, _)
BitAnd(a, b) ==
    IF a = 0 \/ b = 0 THEN 0
    ELSE (a % 2) * (b % 2) + 2 * BitAnd(a \div 2, b \div 2)

BitNot(a) == UINT32_MAX - a

\* Mutant of AlignUp: the mask is dropped, the address is returned as it is.
AlignUp_unmasked(address, alignment) == U32(address)

AlignUp(address, alignment) ==
    BitAnd(U32(address + alignment - 1), BitNot(U32(alignment - 1)))

memmove(m, dst, src, n) ==
    [a \in DOMAIN m |->
        IF U32(a - dst) < n THEN m[U32(src + U32(a - dst))] ELSE m[a]]

RemoveAt(s, i) == SubSeq(s, 1, i - 1) \o SubSeq(s, i + 1, Len(s))

InsertAfter(s, i, e) == SubSeq(s, 1, i) \o <<e>> \o SubSeq(s, i + 1, Len(s))

-----------------------------------------------------------------------------
(* memory_init *)

Block(hdr, address, size, type, process_id, is_free) ==
    [hdr |-> hdr, address |-> address, size |-> size, type |-> type,
     process_id |-> process_id, is_free |-> is_free]

ZeroProcess ==
    [process_id |-> 0, page_directory |-> 0, heap_start |-> 0, heap_end |-> 0,
     stack_start |-> 0, stack_end |-> 0, code_start |-> 0, code_end |-> 0,
     total_allocated |-> 0, is_active |-> FALSE]

\* Mutant of memory_init: the first free block starts at user_memory_start
\* and has the size of the whole user zone.
memory_init_whole_zone(total_memory, kernel_start) ==
    LET kernel_end == U32(kernel_start + KERNEL_HEAP_SIZE)
        total_pages == total_memory \div PAGE_SIZE
    IN  [total_memory |-> total_memory,
         available_memory |-> total_memory,
         kernel_memory_start |-> kernel_start,
         kernel_memory_end |-> kernel_end,
         user_memory_start |-> kernel_end,
         user_memory_end |-> total_memory,
         free_blocks |-> <<Block(kernel_end, kernel_end,
                                 U32(total_memory - kernel_end),
                                 MEM_TYPE_FREE, 0, TRUE)>>,
         allocated_blocks |-> <<>>,
         processes |-> [p \in 0 .. MAX_PROCESSES - 1 |-> ZeroProcess],
         current_process |-> 0,
         page_frames |-> [i \in 0 .. total_pages - 1 |-> 0],
         total_pages |-> total_pages,
         free_pages |-> total_pages,
         allocations |-> 0,
         deallocations |-> 0,
         fragmentation_count |-> 0]

memory_init(total_memory, kernel_start) ==
    LET kernel_end == U32(kernel_start + KERNEL_HEAP_SIZE)
        total_pages == total_memory \div PAGE_SIZE
        initial_address == U32(kernel_end + SIZEOF_BLOCK)
        initial_block == Block(kernel_end, initial_address,
                               U32(total_memory - initial_address),
                               MEM_TYPE_FREE, 0, TRUE)
    IN  [total_memory |-> total_memory,
         available_memory |-> total_memory,
         kernel_memory_start |-> kernel_start,
         kernel_memory_end |-> kernel_end,
         user_memory_start |-> kernel_end,
         user_memory_end |-> total_memory,
         free_blocks |-> <<initial_block>>,
         allocated_blocks |-> <<>>,
         processes |-> [p \in 0 .. MAX_PROCESSES - 1 |-> ZeroProcess],
         current_process |-> 0,
         page_frames |-> [i \in 0 .. total_pages - 1 |-> 0],
         total_pages |-> total_pages,
         free_pages |-> total_pages,
         allocations |-> 0,
         deallocations |-> 0,
         fragmentation_count |-> 0]

Memory0 == [a \in 0 .. Word - 1 |-> a]

Payload(bytes, block) == [k \in 1 .. block.size |-> bytes[U32(block.address + k - 1)]]

Payloads(bytes, blocks) == [i \in 1 .. Len(blocks) |-> Payload(bytes, blocks[i])]

NoDefrag ==
    [ran |-> FALSE, before |-> <<>>, allocated |-> <<>>, free |-> <<>>,
     payload_before |-> <<>>, payload_after |-> <<>>]

Ret(op, args, result) == [op |-> op, args |-> args, result |-> result]

Init ==
    /\ \E total_memory \in TotalMemories, kernel_start \in KernelStarts :
           mm = memory_init(total_memory, kernel_start)
    /\ ret = Ret("memory_init", <<>>, 0)
    /\ dfr = NoDefrag

-----------------------------------------------------------------------------
(* find_free_block *)

RECURSIVE find_scan(_, _, _, _, _, _)
find_scan(fl, i, size, alignment, best_fit, best_size) ==
    IF i > Len(fl) THEN best_fit
    ELSE LET block == fl[i]
             aligned_addr == AlignUp(block.address, alignment)
             padding == U32(aligned_addr - block.address)
             better == /\ block.is_free
                       /\ block.size >= size
                       /\ block.size >= U32(size + padding)
                       /\ block.size < best_size
         IN  IF better
             THEN find_scan(fl, i + 1, size, alignment, i, block.size)
             ELSE find_scan(fl, i + 1, size, alignment, best_fit, best_size)

\* Mutant of find_free_block: first fit (the scan stops at the first block that
\* is large enough) instead of best fit.
RECURSIVE first_fit_scan(_, _, _, _)
first_fit_scan(fl, i, size, alignment) ==
    IF i > Len(fl) THEN nullptr
    ELSE IF find_scan(<<fl[i]>>, 1, size, alignment, nullptr, UINT32_MAX) # nullptr
         THEN i
         ELSE first_fit_scan(fl, i + 1, size, alignment)

find_free_block_first_fit(m, size, alignment) ==
    first_fit_scan(m.free_blocks, 1, size, alignment)

find_free_block(m, size, alignment) ==
    find_scan(m.free_blocks, 1, size, alignment, nullptr, UINT32_MAX)

-----------------------------------------------------------------------------
(* merge_free_blocks *)

RECURSIVE merge_scan(_, _)
merge_scan(fl, i) ==
    IF i > Len(fl) THEN fl
    ELSE IF /\ i + 1 <= Len(fl)
            /\ fl[i + 1].is_free
            /\ U32(fl[i].address + fl[i].size) = fl[i + 1].address
         THEN merge_scan(
                  RemoveAt([fl EXCEPT ![i].size = U32(fl[i].size + fl[i + 1].size)],
                           i + 1),
                  i + 1)
         ELSE merge_scan(fl, i + 1)

\* Mutant of merge_free_blocks: nothing is merged.
merge_free_blocks_none(m) == m

\* Mutant of merge_free_blocks: the head absorbs a free block that starts
\* where it ends wherever that block is in the list.
merge_free_blocks_by_address(m) ==
    LET fl == m.free_blocks
        after == IF fl = <<>> THEN {}
                 ELSE {j \in 2 .. Len(fl) :
                          U32(fl[1].address + fl[1].size) = fl[j].address}
    IN  IF after = {} THEN m
        ELSE LET j == CHOOSE k \in after : \A l \in after : k <= l
             IN  [m EXCEPT !.free_blocks =
                     RemoveAt([fl EXCEPT ![1].size = U32(fl[1].size + fl[j].size)], j)]

merge_free_blocks(m) == [m EXCEPT !.free_blocks = merge_scan(m.free_blocks, 1)]

-----------------------------------------------------------------------------
(* memory_defragment *)

RECURSIVE defrag_walk(_, _, _, _)
defrag_walk(al, i, new_address, bytes) ==
    IF i > Len(al)
    THEN [blocks |-> al, new_address |-> new_address, mem |-> bytes]
    ELSE LET block == al[i]
         IN  IF ~block.is_free
             THEN IF block.address # new_address
                  THEN defrag_walk([al EXCEPT ![i].address = new_address], i + 1,
                                   U32(new_address + block.size),
                                   memmove(bytes, new_address, block.address, block.size))
                  ELSE defrag_walk(al, i + 1, U32(new_address + block.size), bytes)
             ELSE defrag_walk(al, i + 1, new_address, bytes)

memory_defragment(m, bytes) ==
    LET w == defrag_walk(m.allocated_blocks, 1, m.user_memory_start, bytes)
        fl == IF m.free_blocks # <<>>
              THEN [m.free_blocks EXCEPT
                        ![1].address = w.new_address,
                        ![1].size = U32(m.user_memory_end - w.new_address)]
              ELSE m.free_blocks
    IN  [mm |-> [m EXCEPT !.allocated_blocks = w.blocks,
                          !.free_blocks = fl,
                          !.fragmentation_count = U32(m.fragmentation_count + 1)],
         mem |-> w.mem]

-----------------------------------------------------------------------------
(* memory_alloc_aligned, memory_alloc *)

Result(m, bytes, value, d) == [mm |-> m, mem |-> bytes, value |-> value, dfr |-> d]

\* Mutant of take_block: the block found is never split.
take_block_whole(m, idx, size, alignment, type) ==
    LET block == m.free_blocks[idx]
        aligned_addr == AlignUp(block.address, alignment)
        taken == [block EXCEPT
                      !.type = type,
                      !.process_id = m.current_process,
                      !.is_free = FALSE,
                      !.address = aligned_addr]
    IN  [mm |-> [m EXCEPT !.free_blocks = RemoveAt(m.free_blocks, idx),
                          !.allocated_blocks = <<taken>> \o m.allocated_blocks,
                          !.allocations = U32(m.allocations + 1),
                          !.available_memory = U32(m.available_memory - size)],
         value |-> aligned_addr]

\* Lines 181-232: the block at index idx of the free list is carved and moved
\* to the head of the allocated list.
take_block(m, idx, size, alignment, type) ==
    LET block == m.free_blocks[idx]
        aligned_addr == AlignUp(block.address, alignment)
        padding == U32(aligned_addr - block.address)
        split == block.size > U32(size + padding + SIZEOF_BLOCK)
        new_block == Block(U32(aligned_addr + size), U32(aligned_addr + size),
                           U32(block.size - size - padding),
                           MEM_TYPE_FREE, 0, TRUE)
        taken == [block EXCEPT
                      !.size = IF split THEN U32(size + padding) ELSE block.size,
                      !.type = type,
                      !.process_id = m.current_process,
                      !.is_free = FALSE,
                      !.address = aligned_addr]
        fl == IF split
              THEN RemoveAt(InsertAfter(m.free_blocks, idx, new_block), idx)
              ELSE RemoveAt(m.free_blocks, idx)
    IN  [mm |-> [m EXCEPT !.free_blocks = fl,
                          !.allocated_blocks = <<taken>> \o m.allocated_blocks,
                          !.allocations = U32(m.allocations + 1),
                          !.available_memory = U32(m.available_memory - size)],
         value |-> aligned_addr]

\* What one defragmentation pass did: m and bytes are the manager and the
\* memory before the pass, d its outcome.
Seen(m, bytes, d) ==
    [ran |-> TRUE,
     before |-> m.allocated_blocks,
     allocated |-> d.mm.allocated_blocks,
     free |-> d.mm.free_blocks,
     payload_before |-> Payloads(bytes, m.allocated_blocks),
     payload_after |-> Payloads(d.mem, d.mm.allocated_blocks)]

\* Lines 182-232: the block found is carved and handed out.
alloc_found(t, bytes, d) == Result(t.mm, bytes, t.value, d)

\* Lines 174-179: the retry after the defragmentation pass d.
alloc_retry(d, seen, size, alignment, type) ==
    IF find_free_block(d.mm, size, alignment) = nullptr
    THEN Result(d.mm, d.mem, nullptr, seen)
    ELSE alloc_found(take_block(d.mm, find_free_block(d.mm, size, alignment),
                                size, alignment, type),
                     d.mem, seen)

\* Mutant of alloc_after_defragment: a second pass is run before the retry.
alloc_after_defragment_twice(m, bytes, d, size, alignment, type) ==
    alloc_retry(memory_defragment(d.mm, d.mem), Seen(m, bytes, d),
                size, alignment, type)

alloc_after_defragment(m, bytes, d, size, alignment, type) ==
    alloc_retry(d, Seen(m, bytes, d), size, alignment, type)

memory_alloc_aligned(m, bytes, size, alignment, type) ==
    IF size = 0 THEN Result(m, bytes, nullptr, NoDefrag)
    ELSE IF find_free_block(m, size, alignment) # nullptr
         THEN alloc_found(take_block(m, find_free_block(m, size, alignment),
                                     size, alignment, type),
                          bytes, NoDefrag)
         ELSE alloc_after_defragment(m, bytes, memory_defragment(m, bytes),
                                     size, alignment, type)

memory_alloc(m, bytes, size, type) == memory_alloc_aligned(m, bytes, size, 4, type)

-----------------------------------------------------------------------------
(* memory_free *)

RECURSIVE find_allocated(_, _, _)
find_allocated(al, i, addr) ==
    IF i > Len(al) THEN nullptr
    ELSE IF al[i].address = addr THEN i
    ELSE find_allocated(al, i + 1, addr)

\* Mutant of release_block: the release is followed by a compaction of the
\* allocated blocks.
release_block_compacting(m, idx) ==
    LET block == [m.allocated_blocks[idx] EXCEPT
                      !.type = MEM_TYPE_FREE,
                      !.process_id = 0,
                      !.is_free = TRUE]
        m1 == [m EXCEPT
                  !.allocated_blocks = RemoveAt(m.allocated_blocks, idx),
                  !.free_blocks = <<block>> \o m.free_blocks,
                  !.deallocations = U32(m.deallocations + 1),
                  !.available_memory = U32(m.available_memory + block.size)]
    IN  [mm |-> [m1 EXCEPT !.allocated_blocks =
                     defrag_walk(m1.allocated_blocks, 1, m1.user_memory_start,
                                 Memory0).blocks],
         value |-> 0]

\* Lines 251-281: the block at index idx of the allocated list is unlinked,
\* pushed on the free list, and the free list is coalesced.
release_block(m, idx) ==
    LET block == [m.allocated_blocks[idx] EXCEPT
                      !.type = MEM_TYPE_FREE,
                      !.process_id = 0,
                      !.is_free = TRUE]
        m1 == [m EXCEPT
                  !.allocated_blocks = RemoveAt(m.allocated_blocks, idx),
                  !.free_blocks = <<block>> \o m.free_blocks,
                  !.deallocations = U32(m.deallocations + 1),
                  !.available_memory = U32(m.available_memory + block.size)]
    IN  [mm |-> merge_free_blocks(m1), value |-> 0]

\* Mutant of memory_free: the deallocation is counted before the block is
\* looked up, so a failed lookup still bumps the counter.
memory_free_counts_first(m, ptr) ==
    IF ptr = nullptr THEN [mm |-> m, value |-> -1]
    ELSE LET idx == find_allocated(m.allocated_blocks, 1, ptr)
         IN  IF idx = nullptr
             THEN [mm |-> [m EXCEPT !.deallocations = U32(m.deallocations + 1)],
                   value |-> -1]
             ELSE release_block(m, idx)

memory_free(m, ptr) ==
    IF ptr = nullptr THEN [mm |-> m, value |-> -1]
    ELSE LET idx == find_allocated(m.allocated_blocks, 1, ptr)
         IN  IF idx = nullptr THEN [mm |-> m, value |-> -1]
             ELSE release_block(m, idx)

-----------------------------------------------------------------------------
(* process_memory_create, process_memory_destroy, process_alloc *)

LastDefrag(d1, d2) == IF d2.ran THEN d2 ELSE d1

\* Lines 376-387: stack is the outcome of the stack allocation, d the last
\* defragmentation pass the call ran.
create_stack(stack, d, process_id, code_size) ==
    IF stack.value = nullptr
    THEN Result(memory_free([stack.mm EXCEPT
                                 !.processes[process_id].stack_start = stack.value],
                            stack.mm.processes[process_id].code_start).mm,
                stack.mem, -1, d)
    ELSE Result([stack.mm EXCEPT !.processes[process_id] =
                    [stack.mm.processes[process_id] EXCEPT
                        !.stack_start = stack.value,
                        !.stack_end = U32(stack.value + STACK_SIZE),
                        !.heap_start = stack.mm.processes[process_id].code_end,
                        !.heap_end = stack.mm.processes[process_id].code_end,
                        !.process_id = process_id,
                        !.total_allocated = U32(code_size + STACK_SIZE),
                        !.is_active = TRUE]],
                stack.mem, 0, d)

create_stack_last(code, stack, process_id, code_size) ==
    create_stack(stack, LastDefrag(code.dfr, stack.dfr), process_id, code_size)

create_stack_after(code, process_id, code_size) ==
    create_stack_last(code,
                      memory_alloc([code.mm EXCEPT !.processes[process_id] =
                                       [code.mm.processes[process_id] EXCEPT
                                           !.code_start = code.value,
                                           !.code_end = U32(code.value + code_size)]],
                                   code.mem, STACK_SIZE, MEM_TYPE_USER),
                      process_id, code_size)

\* Lines 367-375: code is the outcome of the code allocation.
create_code(code, process_id, code_size) ==
    IF code.value = nullptr
    THEN Result([code.mm EXCEPT !.processes[process_id].code_start = code.value],
                code.mem, -1, code.dfr)
    ELSE create_stack_after(code, process_id, code_size)

process_memory_create(m, bytes, process_id, code_size) ==
    IF process_id >= MAX_PROCESSES THEN Result(m, bytes, -1, NoDefrag)
    ELSE create_code(memory_alloc(m, bytes, code_size, MEM_TYPE_USER),
                     process_id, code_size)

\* Lines 397-404: the walk visits the nodes of the allocated list as it was
\* when each next pointer was read; a visited node is still in the list, since
\* memory_free removes the first node with the given address, which is the
\* visited node or one before it.
RECURSIVE destroy_walk(_, _, _, _)
destroy_walk(m, nodes, i, process_id) ==
    IF i > Len(nodes) THEN m
    ELSE IF nodes[i].process_id = process_id
         THEN destroy_walk(memory_free(m, nodes[i].address).mm, nodes, i + 1, process_id)
         ELSE destroy_walk(m, nodes, i + 1, process_id)

\* Mutant of process_memory_destroy: the is_active test of line 394 is
\* left out.
process_memory_destroy_unchecked(m, process_id) ==
    IF process_id >= MAX_PROCESSES THEN [mm |-> m, value |-> -1]
    ELSE [mm |-> [destroy_walk(m, m.allocated_blocks, 1, process_id)
                     EXCEPT !.processes[process_id] = ZeroProcess],
          value |-> 0]

process_memory_destroy(m, process_id) ==
    IF process_id >= MAX_PROCESSES THEN [mm |-> m, value |-> -1]
    ELSE IF ~m.processes[process_id].is_active THEN [mm |-> m, value |-> -1]
    ELSE LET m1 == destroy_walk(m, m.allocated_blocks, 1, process_id)
         IN  [mm |-> [m1 EXCEPT !.processes[process_id] = ZeroProcess],
              value |-> 0]

\* Mutant of process_alloc_done: current_process is not restored.
process_alloc_done_keeps_owner(r, old_process, process_id, size) ==
    Result([r.mm EXCEPT
               !.processes[process_id].total_allocated =
                   IF r.value # nullptr THEN U32(@ + size) ELSE @],
           r.mem, r.value, r.dfr)

\* Lines 421-428: r is the outcome of the allocation made as process_id.
process_alloc_done(r, old_process, process_id, size) ==
    Result([r.mm EXCEPT
               !.processes[process_id].total_allocated =
                   IF r.value # nullptr THEN U32(@ + size) ELSE @,
               !.current_process = old_process],
           r.mem, r.value, r.dfr)

process_alloc(m, bytes, process_id, size) ==
    IF process_id >= MAX_PROCESSES THEN Result(m, bytes, nullptr, NoDefrag)
    ELSE IF ~m.processes[process_id].is_active THEN Result(m, bytes, nullptr, NoDefrag)
    ELSE process_alloc_done(memory_alloc([m EXCEPT !.current_process = process_id],
                                         bytes, size, MEM_TYPE_USER),
                            m.current_process, process_id, size)

-----------------------------------------------------------------------------
(* memory_get_stats, alloc_page, free_page *)

memory_get_stats(m) == <<m.total_memory, m.available_memory, m.fragmentation_count>>

RECURSIVE page_scan(_, _)
page_scan(m, i) ==
    IF i >= m.total_pages THEN [mm |-> m, value |-> 0]
    ELSE IF m.page_frames[i] = 0
         THEN [mm |-> [m EXCEPT !.page_frames[i] = 1,
                                !.free_pages = U32(m.free_pages - 1)],
               value |-> U32(i * PAGE_SIZE)]
         ELSE page_scan(m, i + 1)

\* Mutant of alloc_page: a call that finds no free page still decrements
\* free_pages.
alloc_page_counts_failure(m) ==
    IF \A i \in 0 .. m.total_pages - 1 : m.page_frames[i] # 0
    THEN [mm |-> [m EXCEPT !.free_pages = U32(m.free_pages - 1)], value |-> 0]
    ELSE page_scan(m, 0)

\* Mutant of alloc_page: the scan starts at page 1.
alloc_page_from_one(m) == page_scan(m, 1)

alloc_page(m) == page_scan(m, 0)

\* Mutant of free_page: the entry is cleared and counted without testing
\* that it is marked allocated.
free_page_unchecked(m, page) ==
    LET page_index == page \div PAGE_SIZE
    IN  IF page_index < m.total_pages
        THEN [m EXCEPT !.page_frames[page_index] = 0,
                       !.free_pages = U32(m.free_pages + 1)]
        ELSE m

free_page(m, page) ==
    LET page_index == page \div PAGE_SIZE
    IN  IF page_index < m.total_pages /\ m.page_frames[page_index] = 1
        THEN [m EXCEPT !.page_frames[page_index] = 0,
                       !.free_pages = U32(m.free_pages + 1)]
        ELSE m

-----------------------------------------------------------------------------
(* The calls *)

\* No two block structs of the sequence share a byte: their locations are at
\* least one sizeof(memory_block_t) apart.
StructsApart(blocks) ==
    \A i, j \in 1 .. Len(blocks) :
        i < j => \/ blocks[i].hdr + SIZEOF_BLOCK <= blocks[j].hdr
                 \/ blocks[j].hdr + SIZEOF_BLOCK <= blocks[i].hdr

\* The block structs live in the memory the lists describe: memory_init puts
\* the first one at user_memory_start (line 150) and a split puts one at
\* aligned_addr + size (line 187). When two linked structs overlap, a write
\* to one changes the other and the next pointers no longer form two lists
\* that end in null, so the walks of lines 240-249, 287-302, 310-330, 340-350
\* and 397-404 no longer read the lists the calls built. A call is followed
\* only from a state where the linked structs are apart.
StructsIntact(m) == StructsApart(m.free_blocks \o m.allocated_blocks)

Bounded(m) ==
    /\ m.allocations <= MaxAllocs
    /\ m.fragmentation_count <= MaxFrag

Addresses(blocks) == {blocks[i].address : i \in 1 .. Len(blocks)}

\* Pointers a caller may hand to memory_free: null, the address of a live
\* block, or a pointer it held earlier (the address of a block now free).
FreeArgs == {nullptr} \cup Addresses(mm.allocated_blocks) \cup Addresses(mm.free_blocks)

PageArgs == {0, 1, PAGE_SIZE, 2 * PAGE_SIZE + 1, mm.total_pages * PAGE_SIZE}

MemoryAllocAligned ==
    /\ StructsIntact(mm)
    /\ \E size \in Sizes, alignment \in Alignments, type \in Types :
           LET r == memory_alloc_aligned(mm, Memory0, size, alignment, type)
           IN  /\ Bounded(r.mm)
               /\ mm' = r.mm
               /\ dfr' = r.dfr
               /\ ret' = Ret("memory_alloc_aligned", <<size, alignment, type>>, r.value)

MemoryFree ==
    /\ StructsIntact(mm)
    /\ \E ptr \in FreeArgs :
           LET r == memory_free(mm, ptr)
           IN  /\ mm' = r.mm
               /\ dfr' = NoDefrag
               /\ ret' = Ret("memory_free", <<ptr>>, r.value)

FindFreeBlock ==
    /\ StructsIntact(mm)
    /\ \E size \in Sizes, alignment \in Alignments :
           /\ ret' = Ret("find_free_block", <<size, alignment>>,
                         find_free_block(mm, size, alignment))
           /\ dfr' = NoDefrag
           /\ UNCHANGED mm

ProcessMemoryCreate ==
    /\ StructsIntact(mm)
    /\ \E process_id \in Pids, code_size \in CodeSizes :
           LET r == process_memory_create(mm, Memory0, process_id, code_size)
           IN  /\ Bounded(r.mm)
               /\ mm' = r.mm
               /\ dfr' = r.dfr
               /\ ret' = Ret("process_memory_create", <<process_id, code_size>>, r.value)

ProcessMemoryDestroy ==
    /\ StructsIntact(mm)
    /\ \E process_id \in Pids :
           LET r == process_memory_destroy(mm, process_id)
           IN  /\ mm' = r.mm
               /\ dfr' = NoDefrag
               /\ ret' = Ret("process_memory_destroy", <<process_id>>, r.value)

ProcessAlloc ==
    /\ StructsIntact(mm)
    /\ \E process_id \in Pids, size \in ProcSizes :
           LET r == process_alloc(mm, Memory0, process_id, size)
           IN  /\ Bounded(r.mm)
               /\ mm' = r.mm
               /\ dfr' = r.dfr
               /\ ret' = Ret("process_alloc", <<process_id, size>>, r.value)

MemoryGetStats ==
    /\ ret' = Ret("memory_get_stats", memory_get_stats(mm), 0)
    /\ dfr' = NoDefrag
    /\ UNCHANGED mm

AllocPage ==
    LET r == alloc_page(mm)
    IN  /\ mm' = r.mm
        /\ ret' = Ret("alloc_page", <<>>, r.value)
        /\ dfr' = NoDefrag

FreePage ==
    \E page \in PageArgs :
        /\ mm' = free_page(mm, page)
        /\ ret' = Ret("free_page", <<page>>, 0)
        /\ dfr' = NoDefrag

Next ==
    \/ MemoryAllocAligned
    \/ MemoryFree
    \/ FindFreeBlock
    \/ ProcessMemoryCreate
    \/ ProcessMemoryDestroy
    \/ ProcessAlloc
    \/ MemoryGetStats

Spec == Init /\ [][Next]_vars

\* The page-frame bitmap is independent of the block allocator: alloc_page and
\* free_page read and write page_frames and free_pages only, and no other
\* function touches these two fields after memory_init. The page calls are
\* interleaved with block allocations and releases.
NextPages ==
    \/ AllocPage
    \/ FreePage
    \/ MemoryAllocAligned
    \/ MemoryFree

SpecPages == Init /\ [][NextPages]_vars

\* The block allocator alone, memory_alloc_aligned and memory_free, followed
\* over one more allocation and one more defragmentation pass than Spec.
BoundedHeap(m) ==
    /\ m.allocations <= HeapMaxAllocs
    /\ m.fragmentation_count <= HeapMaxFrag

MemoryAllocAlignedHeap ==
    /\ StructsIntact(mm)
    /\ \E size \in Sizes, alignment \in Alignments, type \in Types :
           LET r == memory_alloc_aligned(mm, Memory0, size, alignment, type)
           IN  /\ BoundedHeap(r.mm)
               /\ mm' = r.mm
               /\ dfr' = r.dfr
               /\ ret' = Ret("memory_alloc_aligned", <<size, alignment, type>>, r.value)

NextHeap ==
    \/ MemoryAllocAlignedHeap
    \/ MemoryFree

SpecHeap == Init /\ [][NextHeap]_vars

\* The block allocator called with any alignment: zero, not a power of two,
\* or the default.
MemoryAllocAlignedAny ==
    /\ StructsIntact(mm)
    /\ \E size \in Sizes, alignment \in AnyAlignments, type \in Types :
           LET r == memory_alloc_aligned(mm, Memory0, size, alignment, type)
           IN  /\ Bounded(r.mm)
               /\ mm' = r.mm
               /\ dfr' = r.dfr
               /\ ret' = Ret("memory_alloc_aligned", <<size, alignment, type>>, r.value)

NextArgs ==
    \/ MemoryAllocAlignedAny
    \/ MemoryFree

SpecArgs == Init /\ [][NextArgs]_vars

-----------------------------------------------------------------------------
(* Properties *)

UserCapacity == mm.user_memory_end - mm.user_memory_start

RECURSIVE SumSizes(_)
SumSizes(blocks) ==
    IF blocks = <<>> THEN 0 ELSE Head(blocks).size + SumSizes(Tail(blocks))

Headers(blocks) == [i \in 1 .. Len(blocks) |-> blocks[i].hdr]

IsPowerOfTwo(a) == a \in {1, 2, 4, 8, 16, 32, 64, 128}


\* The padding that brings address up to the next multiple of alignment.
PaddingTo(address, alignment) == (alignment - (address % alignment)) % alignment

\* C1: in every reachable state available_memory equals the user-zone capacity
\* (user_memory_end - user_memory_start) minus the sum of the sizes of the
\* blocks in the allocated list.
C1_AvailableIsCapacityMinusAllocated ==
    mm.available_memory = UserCapacity - SumSizes(mm.allocated_blocks)

\* Every block has been released again, and available_memory is above the
\* value memory_init gave it.
C1_Witness ==
    /\ mm.allocated_blocks = <<>>
    /\ mm.deallocations > 0
    /\ mm.available_memory > mm.total_memory

\* Before any release and any failed allocation, total_memory minus
\* available_memory is the sum of the sizes requested so far: an allocation
\* that keeps this sum within the user-zone capacity succeeds.
C2_AllocateSucceeds ==
    ( /\ ret'.op = "memory_alloc_aligned"
      /\ mm.deallocations = 0
      /\ mm.fragmentation_count = 0
      /\ ret'.args[1] > 0
      /\ (mm.total_memory - mm.available_memory) + ret'.args[1] <= UserCapacity )
    => ret'.result # nullptr

\* The release that directly follows its allocation brings available_memory
\* back to its value before that allocation, which took its size off it.
C2_ReleaseRestores ==
    ( /\ ret.op = "memory_alloc_aligned"
      /\ ret.result # nullptr
      /\ ret'.op = "memory_free"
      /\ ret'.args[1] = ret.result
      /\ ret'.result = 0 )
    => mm'.available_memory = U32(mm.available_memory + ret.args[1])

\* C2: allocate calls whose sizes sum to at most the user-zone capacity all
\* succeed, and the matching release of each allocation brings
\* available_memory back to its value before that allocation, so that after
\* all the releases it has its value before the sequence.
C2_AllocateReleaseRoundTrip == [][C2_AllocateSucceeds /\ C2_ReleaseRestores]_vars

\* An allocation failed although nothing had been released and the sizes
\* requested, this one included, sum to at most the user-zone capacity.
C2_Witness ==
    /\ ret.op = "memory_alloc_aligned"
    /\ ret.result = nullptr
    /\ ret.args[1] > 0
    /\ mm.deallocations = 0
    /\ (mm.total_memory - mm.available_memory) + ret.args[1] <= UserCapacity

\* C3: right after a defragmentation pass the allocated blocks lie back to
\* back from user_memory_start in list order, and the free list holds exactly
\* one block, which starts where the last allocated block ends and reaches
\* user_memory_end.
PrefixEnd(blocks) == mm.user_memory_start + SumSizes(blocks)

ContiguousPrefix(blocks) ==
    \A i \in 1 .. Len(blocks) :
        blocks[i].address = PrefixEnd(SubSeq(blocks, 1, i - 1))

C3_DefragmentCompacts ==
    dfr.ran =>
        /\ ContiguousPrefix(dfr.allocated)
        /\ Len(dfr.free) = 1
        /\ dfr.free[1].address = PrefixEnd(dfr.allocated)
        /\ dfr.free[1].address + dfr.free[1].size = mm.user_memory_end

\* A defragmentation pass that left more than one block in the free list.
C3_Witness ==
    /\ dfr.ran
    /\ Len(dfr.free) > 1

\* C4: a defragmentation pass preserves the payload of every allocated block:
\* the bytes at its new address after the pass are the bytes that were at its
\* old address before the pass.
C4_DefragmentPreservesPayload ==
    dfr.ran => dfr.payload_after = dfr.payload_before

\* A pass over two blocks: the head of the list, moved first, keeps its
\* payload, and the block behind it, moved second, does not.
C4_Witness ==
    /\ dfr.ran
    /\ Len(dfr.allocated) = 2
    /\ dfr.payload_after[1] = dfr.payload_before[1]
    /\ dfr.payload_after[2] # dfr.payload_before[2]

\* C5: when destroy_process(pid) succeeds, neither the code block nor the
\* stack block that create_process(pid, code_size) carved out (the blocks at
\* code_start and stack_start of the process's slot) is in the allocated list
\* any more.
C5_DestroyReleasesCodeAndStack ==
    [][ ( /\ ret'.op = "process_memory_destroy"
          /\ ret'.result = 0 )
        => LET proc == mm.processes[ret'.args[1]]
           IN  \A i \in 1 .. Len(mm'.allocated_blocks) :
                   mm'.allocated_blocks[i].address \notin
                       {proc.code_start, proc.stack_start} ]_vars

\* A successful destroy_process of a process other than 0 when the only
\* allocations ever made were the two of its create_process: nothing was
\* released.
C5_Witness ==
    /\ ret.op = "process_memory_destroy"
    /\ ret.result = 0
    /\ ret.args[1] # 0
    /\ mm.allocations = 2
    /\ mm.deallocations = 0
    /\ Len(mm.allocated_blocks) = 2

\* C6: destroy_process(pid) after a successful process_allocate(pid, size)
\* leaves no block tagged pid in the allocated list, and leaves
\* available_memory at its value before that process_allocate (which took
\* exactly size off available_memory).
C6_DestroyRestoresAvailable ==
    [][ ( /\ ret.op = "process_alloc"
          /\ ret.result # nullptr
          /\ ret'.op = "process_memory_destroy"
          /\ ret'.args[1] = ret.args[1]
          /\ ret'.result = 0 )
        => /\ \A i \in 1 .. Len(mm'.allocated_blocks) :
                  mm'.allocated_blocks[i].process_id # ret.args[1]
           /\ mm'.available_memory = U32(mm.available_memory + ret.args[2]) ]_vars

\* A successful destroy_process of a process other than 0 that released the
\* one block process_allocate had handed out, the third and last allocation
\* made: the code and stack blocks are still allocated, and available_memory
\* is above what their two requests left of it.
C6_Witness ==
    /\ ret.op = "process_memory_destroy"
    /\ ret.result = 0
    /\ ret.args[1] # 0
    /\ mm.allocations = 3
    /\ mm.deallocations = 1
    /\ mm.fragmentation_count = 0
    /\ Len(mm.allocated_blocks) = 2
    /\ \A i \in 1 .. 2 : mm.allocated_blocks[i].type = MEM_TYPE_USER
    /\ mm.available_memory >
           mm.total_memory - SumSizes(mm.allocated_blocks)

\* C7: when create_process fails at the stack allocation after its code
\* allocation succeeded (it returns -1 and has stored a non-null code_start),
\* the allocated list holds the same blocks as before the call.
C7_CreateFailureReleasesCode ==
    [][ ( /\ ret'.op = "process_memory_create"
          /\ ret'.result = -1
          /\ ret'.args[1] < MAX_PROCESSES
          /\ mm'.processes[ret'.args[1]].code_start # nullptr )
        => Headers(mm'.allocated_blocks) = Headers(mm.allocated_blocks) ]_vars

\* A create_process that failed at the stack allocation and released nothing:
\* no allocated block has the address stored in code_start.
C7_Witness ==
    /\ ret.op = "process_memory_create"
    /\ ret.result = -1
    /\ ret.args[1] < MAX_PROCESSES
    /\ mm.processes[ret.args[1]].code_start # nullptr
    /\ mm.processes[ret.args[1]].code_start \notin Addresses(mm.allocated_blocks)
    /\ mm.deallocations = 0
    /\ Len(mm.allocated_blocks) = 3

\* C8: find_free_block returns the block that is smallest among the free-list
\* blocks whose size is at least the requested size plus the padding to the
\* requested (power-of-two) alignment, the first such block in list order
\* among equals, and nullptr when there is none.
Eligible(block, size, alignment) ==
    block.size >= size + PaddingTo(block.address, alignment)

C9_Aligned ==
    /\ ( /\ ret.op = "memory_alloc_aligned"
         /\ ret.result # nullptr
         /\ IsPowerOfTwo(ret.args[2]) )
       => ret.result % ret.args[2] = 0
    /\ ( ret.op = "process_alloc" /\ ret.result # nullptr )
       => ret.result % 4 = 0

\* An allocation with alignment 16 that succeeded only after a defragmentation
\* pass, from a free block whose address was not a multiple of 16.
C9_Witness ==
    /\ ret.op = "memory_alloc_aligned"
    /\ ret.args[2] = 16
    /\ ret.result # nullptr
    /\ dfr.ran
    /\ dfr.free[1].address % 16 # 0

\* C10: memory_free of an address that is not the address of any block in the
\* allocated list returns -1 and leaves the counters, available_memory and
\* both lists (the whole manager state) unchanged.
C10_FreeNotFound ==
    [][ ( /\ ret'.op = "memory_free"
          /\ ret'.args[1] \notin Addresses(mm.allocated_blocks) )
        => /\ ret'.result = -1
           /\ mm' = mm ]_vars

\* A failed release of a non-null address while other blocks are allocated.
C10_Witness ==
    /\ ret.op = "memory_free"
    /\ ret.result = -1
    /\ ret.args[1] # nullptr
    /\ mm.allocated_blocks # <<>>

\* C11: a release of the address that the call just before it released
\* successfully (no allocate call in between) returns NOT_FOUND (-1).
C11_DoubleFreeRejected ==
    [][ ( /\ ret.op = "memory_free"
          /\ ret.result = 0
          /\ ret'.op = "memory_free"
          /\ ret'.args[1] = ret.args[1] )
        => ret'.result = -1 ]_vars

\* A release succeeded while the allocated list still held a block with the
\* address released.
C11_Witness ==
    /\ ret.op = "memory_free"
    /\ ret.result = 0
    /\ ret.args[1] \in Addresses(mm.allocated_blocks)

\* C12: an allocate call with size zero, or with an alignment that is zero or
\* not a power of two, returns NONE (nullptr) and leaves the manager (both
\* lists, available_memory, all counters) unchanged.
C12_InvalidArgumentRejected ==
    [][ ( /\ ret'.op = "memory_alloc_aligned"
          /\ \/ ret'.args[1] = 0
             \/ ~IsPowerOfTwo(ret'.args[2]) )
        => /\ ret'.result = nullptr
           /\ mm' = mm ]_vars

\* An allocation with alignment 3 that returned a block.
C12_Witness ==
    /\ ret.op = "memory_alloc_aligned"
    /\ ret.args[2] = 3
    /\ ret.result # nullptr
    /\ mm.allocations = 1

\* C13: an allocate call runs one defragmentation pass exactly when its first
\* best-fit search finds no block, and none otherwise: fragmentation_count
\* grows by 1 in the first case, whether or not the retry succeeds, and by 0
\* in the second; a call that returns NONE leaves allocations and
\* available_memory unchanged.
C13_OnePassPerAllocate ==
    [][ ret'.op = "memory_alloc_aligned" =>
          LET size == ret'.args[1]
              searched == size # 0
              found == find_free_block(mm, size, ret'.args[2]) # nullptr
              pass == searched /\ ~found
          IN  /\ dfr'.ran = pass
              /\ mm'.fragmentation_count =
                     mm.fragmentation_count + (IF pass THEN 1 ELSE 0)
              /\ ret'.result = nullptr =>
                     /\ mm'.allocations = mm.allocations
                     /\ mm'.available_memory = mm.available_memory ]_vars

\* An allocation that succeeded after one defragmentation pass, in a state
\* where an earlier call had already run one.
C13_Witness ==
    /\ ret.op = "memory_alloc_aligned"
    /\ ret.result # nullptr
    /\ dfr.ran
    /\ mm.fragmentation_count = 2

\* C14: in every reachable state the address of every block in the free list
\* and in the allocated list lies in [user_memory_start, user_memory_end).
InUserZone(block) ==
    /\ block.address >= mm.user_memory_start
    /\ block.address < mm.user_memory_end

AtOnePosition(blocks) ==
    \A i, j \in 1 .. Len(blocks) : i # j => blocks[i].hdr # blocks[j].hdr

C15_ListsWellFormed ==
    /\ AtOnePosition(mm.free_blocks \o mm.allocated_blocks)
    /\ \A i \in 1 .. Len(mm.free_blocks) :
           /\ mm.free_blocks[i].is_free
           /\ mm.free_blocks[i].type = MEM_TYPE_FREE
    /\ \A i \in 1 .. Len(mm.allocated_blocks) :
           ~mm.allocated_blocks[i].is_free

\* An allocation split a block and placed the struct of the remainder where
\* the struct of another free block already was: the free list holds that
\* location twice.
C15_Witness ==
    /\ ret.op = "memory_alloc_aligned"
    /\ ret.result # nullptr
    /\ ~dfr.ran
    /\ Len(mm.free_blocks) = 2
    /\ mm.free_blocks[1].hdr = mm.free_blocks[2].hdr

\* The block a successful memory_free(ptr) releases: the first block of the
\* allocated list with that address.
Released(ptr) == mm.allocated_blocks[find_allocated(mm.allocated_blocks, 1, ptr)]

AddressAdjacent(x, y) ==
    \/ x.address + x.size = y.address
    \/ y.address + y.size = x.address

\* The free list fl has a node with the struct, address and size of block.
HasUnchanged(fl, block) ==
    \E k \in 1 .. Len(fl) :
        /\ fl[k].hdr = block.hdr
        /\ fl[k].address = block.address
        /\ fl[k].size = block.size

AddrSize(blocks) ==
    [i \in 1 .. Len(blocks) |->
        <<blocks[i].hdr, blocks[i].address, blocks[i].size>>]

\* s without its first n elements.
Drop(s, n) == SubSeq(s, n + 1, Len(s))

\* s is t with some elements removed.
RECURSIVE IsSubSeqOf(_, _)
IsSubSeqOf(s, t) ==
    IF s = <<>> THEN TRUE
    ELSE IF t = <<>> THEN FALSE
    ELSE IF Head(s) = Head(t) THEN IsSubSeqOf(Tail(s), Tail(t))
    ELSE IsSubSeqOf(s, Tail(t))

SearchedList == IF dfr'.ran THEN dfr'.free ELSE mm.free_blocks

\* The position in SearchedList of the block the step chose.
Chosen ==
    find_free_block([mm EXCEPT !.free_blocks = SearchedList],
                    ret'.args[1], ret'.args[2])

C20_ProcessAllocRestoresOwner ==
    [][ ret'.op = "process_alloc" =>
          /\ mm'.current_process = mm.current_process
          /\ ret'.result # nullptr =>
                 /\ mm'.allocated_blocks # <<>>
                 /\ mm'.allocated_blocks[1].address = ret'.result
                 /\ mm'.allocated_blocks[1].process_id = ret'.args[1]
                 /\ mm'.allocated_blocks[1].type = MEM_TYPE_USER
                 /\ ~mm'.allocated_blocks[1].is_free
                 /\ mm'.processes[ret'.args[1]].total_allocated =
                        mm.processes[ret'.args[1]].total_allocated + ret'.args[2] ]_vars

\* A successful process_alloc for process 1, whose id differs from the
\* current_process value 0 the manager holds between calls.
C20_Witness ==
    /\ ret.op = "process_alloc"
    /\ ret.result # nullptr
    /\ ret.args[1] = 1
    /\ mm.current_process = 0
    /\ mm.allocated_blocks[1].process_id = 1
    /\ mm.processes[1].total_allocated = 40 + STACK_SIZE + 40

\* The slot of process_id is out of range or not active in the state before
\* the step.
NoSuchProcess(process_id) ==
    \/ process_id >= MAX_PROCESSES
    \/ ~mm.processes[process_id].is_active

\* C21: process_memory_destroy and process_alloc on a process id that is out
\* of range, was never created or was already destroyed return -1 and
\* nullptr and leave the whole manager (both lists, available_memory, the
\* counters, current_process) unchanged; a process_memory_destroy of the
\* same id right after a successful one fails.
C21_NoSuchProcessFails ==
    [][ /\ ( ret'.op = "process_memory_destroy" /\ NoSuchProcess(ret'.args[1]) )
           => ret'.result = -1 /\ mm' = mm
        /\ ( ret'.op = "process_alloc" /\ NoSuchProcess(ret'.args[1]) )
           => ret'.result = nullptr /\ mm' = mm
        /\ ( /\ ret.op = "process_memory_destroy"
             /\ ret.result = 0
             /\ ret'.op = "process_memory_destroy"
             /\ ret'.args = ret.args )
           => ret'.result = -1 /\ mm' = mm ]_vars

\* A process_memory_destroy that failed on an in-range id after a process
\* had been created and destroyed: two blocks were allocated and released,
\* and no slot is active.
C21_Witness ==
    /\ ret.op = "process_memory_destroy"
    /\ ret.result = -1
    /\ ret.args[1] < MAX_PROCESSES
    /\ mm.allocations = 2
    /\ mm.deallocations = 2
    /\ \A p \in 0 .. MAX_PROCESSES - 1 : ~mm.processes[p].is_active

\* The indexes of the free pages of the bitmap.
FreePages(m) == {i \in 0 .. m.total_pages - 1 : m.page_frames[i] = 0}

\* C22: free_pages counts the free entries of the bitmap, which starts all
\* free, and alloc_page takes one exactly when there is one: from a fresh
\* manager it succeeds total_pages times. The call made when no page is free
\* returns 0 and changes neither the bitmap nor free_pages; the call made
\* when every page is free, the first one of a fresh manager, takes page 0
\* and returns 0 as well.
C22_AllocPageExhaustion ==
    [][ /\ mm.free_pages = Cardinality(FreePages(mm))
        /\ ret'.op = "alloc_page" =>
               /\ FreePages(mm) # {} =>
                      /\ mm'.free_pages = mm.free_pages - 1
                      /\ Cardinality(FreePages(mm')) = Cardinality(FreePages(mm)) - 1
               /\ FreePages(mm) = {} =>
                      /\ ret'.result = 0
                      /\ mm' = mm
               /\ FreePages(mm) = 0 .. mm.total_pages - 1 =>
                      /\ ret'.result = 0
                      /\ mm'.page_frames[0] = 1 ]_vars

\* An alloc_page that returned 0 with every page allocated, in a manager
\* where the heap is still untouched: the failing call after total_pages
\* successes, or the call that took page 0 back as the last free page.
C22_Witness ==
    /\ ret.op = "alloc_page"
    /\ ret.result = 0
    /\ mm.free_pages = 0
    /\ FreePages(mm) = {}
    /\ mm.allocations = 0

\* C23: alloc_page, when at least one page is free, marks the free page of
\* lowest index allocated, decrements free_pages by 1, returns that index
\* times PAGE_SIZE, and leaves every other entry of the bitmap and the rest
\* of the manager as they were.
C23_AllocPageLowestFree ==
    [][ ( ret'.op = "alloc_page" /\ FreePages(mm) # {} ) =>
          LET i == CHOOSE k \in FreePages(mm) : \A l \in FreePages(mm) : k <= l
          IN  /\ ret'.result = i * PAGE_SIZE
              /\ mm' = [mm EXCEPT !.page_frames[i] = 1,
                                  !.free_pages = mm.free_pages - 1] ]_vars

\* An alloc_page that returned page 1 although page 2 had been allocated
\* before: page 1 was released in between and was the lowest free page.
C23_Witness ==
    /\ ret.op = "alloc_page"
    /\ ret.result = PAGE_SIZE
    /\ mm.page_frames[2] = 1
    /\ mm.free_pages = 0

\* What memory_init leaves apart from the first free block: an empty
\* allocated list, one free block, a bitmap with every page free and
\* free_pages = total_pages, and the three counters at 0.
FreshManager ==
    /\ mm.allocated_blocks = <<>>
    /\ Len(mm.free_blocks) = 1
    /\ mm.free_blocks[1].is_free
    /\ mm.free_blocks[1].type = MEM_TYPE_FREE
    /\ \A i \in 0 .. mm.total_pages - 1 : mm.page_frames[i] = 0
    /\ mm.free_pages = mm.total_pages
    /\ mm.allocations = 0
    /\ mm.deallocations = 0
    /\ mm.fragmentation_count = 0

\* C24 as stated: right after memory_init the manager is fresh and the one
\* free block spans the whole user zone: its address is user_memory_start and
\* its size is user_memory_end - user_memory_start.
C24_InitBlockSpansUserZone ==
    ret.op = "memory_init" =>
        /\ FreshManager
        /\ mm.free_blocks[1].address = mm.user_memory_start
        /\ mm.free_blocks[1].size = mm.user_memory_end - mm.user_memory_start

\* C24, amended: right after memory_init the manager is fresh; the struct of
\* the one free block is at user_memory_start, and the block itself is the
\* rest of the user zone behind the struct: its address is user_memory_start
\* + sizeof(memory_block_t) and it ends at user_memory_end.
C24_InitBlockBehindItsStruct ==
    ret.op = "memory_init" =>
        /\ FreshManager
        /\ mm.free_blocks[1].hdr = mm.user_memory_start
        /\ mm.free_blocks[1].address = mm.user_memory_start + SIZEOF_BLOCK
        /\ mm.free_blocks[1].size =
               mm.user_memory_end - mm.user_memory_start - SIZEOF_BLOCK

\* The state memory_init leaves, with a user zone larger than one struct.
C24_Witness ==
    /\ ret.op = "memory_init"
    /\ mm.user_memory_end - mm.user_memory_start > SIZEOF_BLOCK
    /\ mm.free_blocks # <<>>

\* The smallest number of bytes a memory_alloc_aligned call that succeeds
\* asks for.
LeastRequest == CHOOSE s \in Sizes \ {0} : \A t \in Sizes \ {0} : s <= t

\* C25: the ranges [address, address + requested size) of two distinct blocks
\* of the allocated list are disjoint. The requested size is not kept in the
\* block (its size field also counts padding and an unsplit remainder), but
\* every request is for LeastRequest bytes or more, so no block may start
\* within the first LeastRequest bytes of another.
C25_AllocatedRegionsDisjoint ==
    \A i, j \in 1 .. Len(mm.allocated_blocks) :
        i # j => ~( /\ mm.allocated_blocks[i].address <= mm.allocated_blocks[j].address
                    /\ mm.allocated_blocks[j].address
                           < mm.allocated_blocks[i].address + LeastRequest )

\* An allocation that succeeded after a defragmentation pass and left two
\* blocks allocated, with all block structs apart.
C25_Witness ==
    /\ ret.op = "memory_alloc_aligned"
    /\ ret.result # nullptr
    /\ dfr.ran
    /\ Len(mm.allocated_blocks) = 2
    /\ StructsIntact(mm)

\* C26: the address fields of the blocks of the allocated list are pairwise
\* distinct.
C26_AllocatedAddressesDistinct ==
    \A i, j \in 1 .. Len(mm.allocated_blocks) :
        i # j => mm.allocated_blocks[i].address # mm.allocated_blocks[j].address

\* A memory_free that released one of three allocated blocks, so that
\* find_allocated had several addresses to tell apart.
C26_Witness ==
    /\ ret.op = "memory_free"
    /\ ret.result = 0
    /\ Len(mm.allocated_blocks) = 2
    /\ StructsIntact(mm)

\* C27: the size fields of all blocks of the free list and the allocated list
\* together sum to at most the capacity of the user zone, and a
\* defragmentation pass ends with its cursor (user_memory_start plus the
\* sizes of the allocated blocks) at or before user_memory_end, so that the
\* size it gives the head of the free list does not wrap.
C27_SizesWithinCapacity ==
    /\ SumSizes(mm.free_blocks) + SumSizes(mm.allocated_blocks) <= UserCapacity
    /\ dfr.ran => mm.user_memory_start + SumSizes(dfr.allocated) <= mm.user_memory_end

\* A defragmentation pass that packed an allocated block and rewrote the head
\* of a free list of two nodes.
C27_Witness ==
    /\ dfr.ran
    /\ Len(dfr.allocated) >= 1
    /\ Len(dfr.free) = 2
    /\ dfr.free[1].address = mm.user_memory_start + SumSizes(dfr.allocated)

\* C28: available_memory, the free amount memory_get_stats reports, never
\* exceeds total_memory.
C28_AvailableAtMostTotal == mm.available_memory <= mm.total_memory

\* A release of the only block ever allocated, which had been padded to an
\* alignment of 16.
C28_Witness ==
    /\ ret.op = "memory_free"
    /\ ret.result = 0
    /\ ret.args[1] = 64
    /\ mm.allocations = 1
    /\ mm.deallocations = 1

\* C29: a successful process_memory_destroy(process_id) leaves in the
\* allocated list, unchanged and in order, every block that was not allocated
\* on behalf of process_id: the blocks of plain memory_alloc_aligned calls
\* (the only ones whose type is not MEM_TYPE_USER) and the blocks tagged
\* with another process id.
C29_DestroyKeepsOtherBlocks ==
    [][ ( ret'.op = "process_memory_destroy" /\ ret'.result = 0 ) =>
          IsSubSeqOf(AddrSize(SelectSeq(mm.allocated_blocks,
                                        LAMBDA b : \/ b.type # MEM_TYPE_USER
                                                   \/ b.process_id # ret'.args[1])),
                     AddrSize(mm'.allocated_blocks)) ]_vars

\* A successful destroy of process 1 that released the one block tagged 1
\* and left two blocks allocated.
C29_Witness ==
    /\ ret.op = "process_memory_destroy"
    /\ ret.result = 0
    /\ ret.args[1] = 1
    /\ mm.deallocations = 1
    /\ Len(mm.allocated_blocks) = 2
    /\ \A i \in 1 .. 2 : mm.allocated_blocks[i].process_id # 1

ContiguousSuccessor(fl, i) ==
    /\ i + 1 <= Len(fl)
    /\ U32(fl[i].address + fl[i].size) = fl[i + 1].address

\* C31: whenever memory_free returns successfully, no block of the free list
\* has an immediate list successor whose address equals that block's address
\* plus its size.
C31_CoalescingComplete ==
    ( ret.op = "memory_free" /\ ret.result = 0 ) =>
        \A i \in 1 .. Len(mm.free_blocks) : ~ContiguousSuccessor(mm.free_blocks, i)

\* A successful memory_free whose released block absorbed the old head of
\* the free list and is left in front of the block that followed it, which
\* starts exactly where the merged block ends: the pass stepped over the
\* merged block without testing it again. No defragmentation pass has run
\* and every block lies within the user zone.
C31_Witness ==
    /\ ret.op = "memory_free"
    /\ ret.result = 0
    /\ Len(mm.free_blocks) >= 2
    /\ mm.free_blocks[1].address = ret.args[1]
    /\ ContiguousSuccessor(mm.free_blocks, 1)
    /\ mm.fragmentation_count = 0
    /\ StructsIntact(mm)
    /\ \A i \in 1 .. Len(mm.free_blocks) :
           mm.free_blocks[i].address + mm.free_blocks[i].size <= mm.user_memory_end

\* C32: in every state reached by alloc_page and free_page calls, among them
\* free_page of a page that is already free, of an address past the last
\* page and of an address that is not a multiple of PAGE_SIZE, free_pages is
\* the number of bitmap entries marked free and 0 <= free_pages <= total_pages.
C32_FreePagesCountsBitmap ==
    /\ mm.free_pages = Cardinality(FreePages(mm))
    /\ 0 <= mm.free_pages
    /\ mm.free_pages <= mm.total_pages

\* A free_page of the first address past the last page, made while page 0 is
\* free and the other pages are allocated: the call changed nothing and
\* free_pages is 1.
C32_Witness ==
    /\ ret.op = "free_page"
    /\ ret.args[1] = mm.total_pages * PAGE_SIZE
    /\ FreePages(mm) = {0}
    /\ mm.free_pages = 1

====
